---- MODULE Spec2Model ----
(***************************************************************************)
(* A model of d-project's task runner (src/d_project/utils.py): manifest  *)
(* loading, the content-hash lockfile, the rerun decision, the recursive  *)
(* execution of commands and workflows, the parsing of config overrides,  *)
(* the checksum of a directory, and the help and documentation            *)
(* operations.                                                            *)
(***************************************************************************)
EXTENDS Integers, Sequences, FiniteSets, TLC

VARIABLES
    manifest,   \* the parsed content of project.yml in the project directory
    files,      \* regular files of the project directory: name -> bytes or Absent
    dirs,       \* the directories of the project directory that exist
    lock,       \* project.lock: [exists, data], data a map name -> lock entry
    cwd,        \* the process working directory
    stack,      \* the project_run activations, innermost last
    exc,        \* the exception in flight (SystemExit / SubprocessError / other)
    args,       \* the arguments of the running project_run call
    phase,      \* "idle", "running" or "done"
    result,     \* how the last project_run call ended
    data,       \* update_lockfile's local variable `data`
    log,        \* history: what the running call has done so far
    snap,       \* history: per command name, the state at the end of its last
                \* successful non-dry run
    entry0,     \* history: cwd and lockfile at the entry of the running call
    runs,       \* number of project_run calls started so far
    edits,      \* number of changes made to the project between calls
    ov,         \* the override parser's state (its own specification)
    ck,         \* the state of a checksum comparison (its own specification)
    race,       \* two instances updating one lockfile (their own specification)
    hist        \* history: the previous call, for the calls that repeat it

vars == <<manifest, files, dirs, lock, cwd, stack, exc, args, phase, result,
          data, log, snap, entry0, runs, edits, ov, ck, race, hist>>

runnerVars == <<manifest, files, dirs, lock, cwd, stack, exc, args, phase,
                result, data, log, snap, entry0, runs, edits, race, hist>>

-----------------------------------------------------------------------------
(* Bounds *)

MaxRuns == 2
MaxEdits == 1
\* Nested project_run calls the interpreter allows before RecursionError.
MaxDepth == 4

-----------------------------------------------------------------------------
(* The file system of the project directory *)

\* Marks a file that does not exist (no byte string contains -1).
Absent == <<-1>>

\* Regular file names, in the order sorted() gives their paths.
FileOrder == <<"d/x", "d/y", "doc", "out", "src">>
Files == {FileOrder[i] : i \in 1..Len(FileOrder)}
Dirs == {"d"}
\* The files a directory contains (rglob("*")), and nothing else.
Under(f, d) == d = "d" /\ f \in {"d/x", "d/y"}

Contents == {<<>>, <<1>>}

\* Path.exists()
Exists(fs, ds, path) ==
    \/ path \in Files /\ fs[path] # Absent
    \/ path \in Dirs /\ path \in ds

IsFile(fs, path) == path \in Files /\ fs[path] # Absent

-----------------------------------------------------------------------------
(* Checksums and lock entries *)

\* hashlib.md5(...).hexdigest(), taken as collision-free: the digest of a
\* byte string is the byte string, tagged.
Md5(bytes) == <<"md5", bytes>>

\* The digest a file that does not exist is recorded with (None).
NoDigest == <<"null", <<>>>>

RECURSIVE DirBytes(_, _, _, _)
\* The bytes dir_checksum.update() is fed: the contents of the regular files
\* under the directory, in sorted order, from position i of FileOrder on.
DirBytes(fs, d, order, i) ==
    IF i > Len(order) THEN <<>>
    ELSE (IF Under(order[i], d) /\ fs[order[i]] # Absent
             THEN fs[order[i]] ELSE <<>>) \o DirBytes(fs, d, order, i + 1)

\* get_checksum that reads nothing of what is stored under the path.
get_checksum_path(fs, ds, path) == Md5(<<>>)

get_checksum(fs, ds, path) ==
    IF IsFile(fs, path) THEN Md5(fs[path])
    ELSE Md5(DirBytes(fs, path, FileOrder, 1))

\* get_fileinfo that digests the files of the project as first found, not the
\* files it is given.
get_fileinfo_initial(fs, ds, paths) ==
    [i \in 1..Len(paths) |->
        [path |-> paths[i],
         md5 |-> IF paths[i] \in Files /\ paths[i] \in {"src", "out"}
                    THEN Md5(<<1>>) ELSE NoDigest]]

\* get_fileinfo that takes a missing path for an empty one.
get_fileinfo_empty(fs, ds, paths) ==
    [i \in 1..Len(paths) |->
        [path |-> paths[i],
         md5 |-> IF Exists(fs, ds, paths[i])
                    THEN get_checksum(fs, ds, paths[i]) ELSE Md5(<<>>)]]

get_fileinfo(fs, ds, paths) ==
    [i \in 1..Len(paths) |->
        [path |-> paths[i],
         md5 |-> IF Exists(fs, ds, paths[i])
                    THEN get_checksum(fs, ds, paths[i]) ELSE NoDigest]]

get_lock_entry(fs, ds, command) ==
    [cmd |-> <<"project run", command.name>>,
     script |-> command.script,
     deps |-> get_fileinfo(fs, ds, command.deps),
     outs |-> get_fileinfo(fs, ds, command.outputs)
                \o get_fileinfo(fs, ds, command.outputs_no_cache)]

\* A hash of the recorded files alone.
get_hash_files(e) == Md5(<<e.deps, e.outs>>)

\* md5 of the JSON dump with sorted keys: equal exactly for equal entries.
get_hash(e) == Md5(e)

\* check_rerun with the last comparison turned around.
check_rerun_eq(fs, ds, lk, command) ==
    IF command.no_skip THEN TRUE
    ELSE IF ~lk.exists THEN TRUE
    ELSE IF command.name \notin DOMAIN lk.data THEN TRUE
    ELSE IF lk.data[command.name].outs = <<>> THEN TRUE
    ELSE get_hash(get_lock_entry(fs, ds, command))
            = get_hash(lk.data[command.name])

\* check_rerun without the rule for entries that record no outputs.
check_rerun_outs(fs, ds, lk, command) ==
    IF command.no_skip THEN TRUE
    ELSE IF ~lk.exists THEN TRUE
    ELSE IF command.name \notin DOMAIN lk.data THEN TRUE
    ELSE get_hash(get_lock_entry(fs, ds, command))
            # get_hash(lk.data[command.name])

\* check_rerun without the rule for no_skip.
check_rerun_noskip(fs, ds, lk, command) ==
    IF ~lk.exists THEN TRUE
    ELSE IF command.name \notin DOMAIN lk.data THEN TRUE
    ELSE IF lk.data[command.name].outs = <<>> THEN TRUE
    ELSE get_hash(get_lock_entry(fs, ds, command))
            # get_hash(lk.data[command.name])

check_rerun(fs, ds, lk, command) ==
    IF command.no_skip THEN TRUE
    ELSE IF ~lk.exists THEN TRUE
    ELSE IF command.name \notin DOMAIN lk.data THEN TRUE
    ELSE IF lk.data[command.name].outs = <<>> THEN TRUE
    ELSE get_hash(get_lock_entry(fs, ds, command))
            # get_hash(lk.data[command.name])

-----------------------------------------------------------------------------
(* Manifests *)

\* A script line. The model's lines are small programs whose effect on the
\* project directory is known: "write" puts bytes in a file, "rm" deletes one.
Line(prog, path, bytes) == [prog |-> prog, path |-> path, bytes |-> bytes]

\* A command of project.yml (schema.ProjectConfigCommand); extra holds the keys
\* the schema does not know.
Command(name, help, script, deps, outputs, outputs_no_cache, no_skip) ==
    [name |-> name, help |-> help, script |-> script, deps |-> deps,
     outputs |-> outputs, outputs_no_cache |-> outputs_no_cache,
     no_skip |-> no_skip, extra |-> {}]

cmdA == Command("A", "build", <<Line("write", "out", <<1>>)>>,
                <<"src">>, <<"out">>, <<>>, FALSE)
cmdB == Command("B", "pack", <<Line("write", "d/x", <<1>>)>>,
                <<"out">>, <<"d">>, <<>>, FALSE)
\* Variants of A: outputs only under outputs_no_cache, no outputs at all,
\* no_skip set, another help text, another script, an unknown key.
cmdA_nc == [cmdA EXCEPT !.outputs = <<>>, !.outputs_no_cache = <<"out">>]
cmdA_noout == [cmdA EXCEPT !.outputs = <<>>]
cmdA_noskip == [cmdA EXCEPT !.no_skip = TRUE]
cmdA_help == [cmdA EXCEPT !.help = "compile"]
cmdA_script == [cmdA EXCEPT !.script = <<Line("write", "out", <<>>),
                                         Line("rm", "src", <<>>)>>]
cmdA_extra == [cmdA EXCEPT !.extra = {"timeout"}]
\* A that declares an output its script does not make.
cmdA_late == [cmdA EXCEPT !.outputs = <<"d/x">>]

\* project.yml: file is "ok", "absent" or "malformed" (not YAML); extra holds
\* the top-level keys the schema does not know, other than directories.
Config(commands, workflows, directories) ==
    [file |-> "ok", commands |-> commands, workflows |-> workflows,
     directories |-> directories, extra |-> {}]

mBase == Config(<<cmdA, cmdB>>, ("W" :> <<"A", "B">>), <<"d">>)
mNoCache == Config(<<cmdA_nc, cmdB>>, ("W" :> <<"A", "B">>), <<"d">>)
mNoOut == Config(<<cmdA_noout, cmdB>>, ("W" :> <<"A", "B">>), <<>>)
mNoSkip == Config(<<cmdA_noskip, cmdB>>, ("W" :> <<"A", "B">>), <<"d">>)
mHelp == Config(<<cmdA_help, cmdB>>, ("W" :> <<"B", "A">>), <<"d">>)
mScript == Config(<<cmdA_script>>, <<>>, <<>>)
\* Semantic errors: a step that is no command; a workflow named as a command.
mBadStep == Config(<<cmdA, cmdB>>, ("W" :> <<"A", "Z">>), <<"d">>)
mClash == Config(<<cmdA, cmdB>>, ("A" :> <<"B">>), <<"d">>)

\* A command with a key the schema does not know; no project.yml at all.
mSchema == Config(<<cmdA_extra, cmdB>>, ("W" :> <<"A", "B">>), <<"d">>)
mAbsent == [mBase EXCEPT !.file = "absent"]
mMalformed == [mBase EXCEPT !.file = "malformed"]
\* A top-level key the schema does not know.
mTopKey == [Config(<<cmdA>>, <<>>, <<>>) EXCEPT !.extra = {"assets"}]
mLate == Config(<<cmdA_late, cmdB>>, ("W" :> <<"A", "B">>), <<"d">>)
\* Two workflows that name each other: W runs Z, Z runs A and then W.
mCycle == Config(<<cmdA>>, ("W" :> <<"Z">>) @@ ("Z" :> <<"A", "W">>), <<>>)

Manifests == {mBase, mNoCache, mNoOut, mNoSkip, mHelp, mScript, mBadStep, mClash,
              mSchema, mAbsent, mLate, mMalformed, mTopKey, mCycle}
\* The manifests an edit of project.yml between calls leads to.
EditedManifests == {mBase, mNoCache, mNoOut, mHelp, mScript}

\* The names a caller may ask project_run for.
RunNames == {"A", "B", "W", "Z"}
CommandNames == {"A", "B"}

\* commands = {cmd["name"]: cmd for cmd in config.get("commands", [])}
CommandKeys(config) == {config.commands[i].name : i \in 1..Len(config.commands)}
Commands(config) ==
    [n \in CommandKeys(config) |->
        LET last == CHOOSE i \in 1..Len(config.commands) :
                        /\ config.commands[i].name = n
                        /\ \A j \in (i + 1)..Len(config.commands) :
                               config.commands[j].name # n
        IN config.commands[last]]
WorkflowKeys(config) == DOMAIN config.workflows

-----------------------------------------------------------------------------
(* Loading and validating the manifest *)

\* The top-level keys of the manifest that are no fields of
\* ProjectConfigSchema; `directories` is one of them.
UnknownTopKeys(config) ==
    config.extra \cup (IF config.directories # <<>> THEN {"directories"} ELSE {})

\* The commands of the manifest with a key that is no field of
\* ProjectConfigCommand.
UnknownCommandKeys(config) ==
    {i \in 1..Len(config.commands) : config.commands[i].extra # {}}

\* A validation that forbids unknown keys at the top level too.
validate_forbid(config) ==
    {<<"commands", i>> : i \in UnknownCommandKeys(config)}
    \cup {<<k, 0>> : k \in UnknownTopKeys(config)}

\* schema.validate(ProjectConfigSchema, config): the error locations. A command
\* forbids unknown keys (extra = "forbid"); ProjectConfigSchema sets no such
\* option, so pydantic ignores unknown top-level keys.
validate(config) == {<<"commands", i>> : i \in UnknownCommandKeys(config)}

\* validate_project_commands: the messages it prints. It only prints them.
validate_project_commands(config) ==
    LET names == CommandKeys(config)
        count(n) == Cardinality({i \in 1..Len(config.commands) :
                                    config.commands[i].name = n})
    IN {<<"duplicate", n>> : n \in {m \in names : count(m) > 1}}
       \cup {<<"clash", w>> : w \in WorkflowKeys(config) \cap names}
       \cup {<<"unknown step", w>> : w \in
                {v \in WorkflowKeys(config) :
                    \E i \in 1..Len(config.workflows[v]) :
                        config.workflows[v][i] \notin names}}

\* The directories load_project_config creates: the declared ones that do not
\* exist yet.
MadeDirs(config, fs, ds) ==
    {config.directories[i] : i \in {j \in 1..Len(config.directories) :
                                ~Exists(fs, ds, config.directories[j])}}

\* A check that lets the names of commands through and no other.
validate_subcommand_commands(commands, workflows, subcommand) ==
    subcommand \in commands

\* validate_subcommand: TRUE when it lets the subcommand through.
validate_subcommand(commands, workflows, subcommand) ==
    /\ ~(commands = {} /\ workflows = {})
    /\ (subcommand \in commands \/ subcommand \in workflows)

\* The failure message with the commands only.
ListedNames_commands(commands, workflows) == commands

\* The names the failure message of validate_subcommand lists.
ListedNames(commands, workflows) ==
    IF commands = {} /\ workflows = {} THEN {} ELSE commands \cup workflows

-----------------------------------------------------------------------------
(* Exceptions, frames, history *)

NoLine == Line("none", "", <<>>)
\* ret.stdout: what the child wrote to stdout and stderr, when it is captured.
\* A child's output tells its program and its exit code.
NoStdout == [by |-> "none", code |-> 0]
Stdout(line, code) == [by |-> line.prog, code |-> code]

NoExc == [kind |-> "none", status |-> 0, line |-> NoLine, stdout |-> NoStdout]
\* sys.exit(n), msg.fail(..., exits=n)
SystemExit(n) ==
    [kind |-> "SystemExit", status |-> n, line |-> NoLine, stdout |-> NoStdout]
\* run_command's SubprocessError: error.command is the command line, error.ret
\* the completed process with its return code and its captured output.
SubprocessError(n, line) ==
    [kind |-> "SubprocessError", status |-> n, line |-> line,
     stdout |-> Stdout(line, n)]
\* Any other uncaught Python exception.
PyError(what) ==
    [kind |-> what, status |-> 1, line |-> NoLine, stdout |-> NoStdout]

\* An activation of project_run: the subcommand, where it is, the index of the
\* workflow step or script line it is at, and working_dir's prev_cwd.
Frame(name) == [name |-> name, pc |-> "load", idx |-> 1,
                prev_cwd |-> "", inwd |-> FALSE]

Top == stack[Len(stack)]
Pop == SubSeq(stack, 1, Len(stack) - 1)
SetTop(f) == [stack EXCEPT ![Len(stack)] = f]

Event(ev, name, i, code, names) ==
    [ev |-> ev, name |-> name, i |-> i, code |-> code, names |-> names]

\* The paths a command lists, and the files they cover: the listed files and
\* the files under the listed directories.
Listed(command) ==
    {command.deps[i] : i \in 1..Len(command.deps)}
    \cup {command.outputs[i] : i \in 1..Len(command.outputs)}
    \cup {command.outputs_no_cache[i] : i \in 1..Len(command.outputs_no_cache)}
Covered(command) ==
    {f \in Files : f \in Listed(command)
                    \/ \E d \in Dirs : d \in Listed(command) /\ Under(f, d)}

\* What snap keeps of a run: the command as the manifest had it, and the
\* listed paths with the files they cover as the run left them.
Snapshot(command, fs, ds) ==
    [valid |-> TRUE, cmd |-> command,
     files |-> [f \in Files |-> IF f \in Covered(command) THEN fs[f] ELSE Absent],
     dirs |-> ds \cap Listed(command)]
NoSnap == [valid |-> FALSE, cmd |-> cmdA, files |-> [f \in Files |-> Absent],
           dirs |-> {}]

ExitCodes == {0, 1, 2}

\* A script line can succeed only where its program can: writing needs the
\* file's directory, removing needs the file.
CanSucceed(line, fs, ds) ==
    CASE line.prog = "write" -> \A d \in Dirs : Under(line.path, d) => d \in ds
      [] line.prog = "rm" -> fs[line.path] # Absent
      [] OTHER -> TRUE

Effect(line, fs) ==
    CASE line.prog = "write" -> [fs EXCEPT ![line.path] = line.bytes]
      [] line.prog = "rm" -> [fs EXCEPT ![line.path] = Absent]
      [] OTHER -> fs

\* run_command that exits with 1 for every failure.
run_command_exit1(line, code, capture) ==
    IF code # 0 THEN SystemExit(1) ELSE NoExc

\* run_command's handling of the return code: the exception it ends with.
run_command(line, code, capture) ==
    IF code # 0 /\ capture THEN SubprocessError(code, line)
    ELSE IF code # 0 THEN SystemExit(code)
    ELSE NoExc

\* working_dir without try/finally: an exception skips the chdir back.
working_dir_exit_nofinally(frame, current, raised) ==
    IF raised THEN current ELSE frame.prev_cwd

\* working_dir's finally clause: the directory the process is in afterwards.
working_dir_exit(frame, current, raised) == frame.prev_cwd

\* A workflow loop that catches what a step raises and goes on.
WorkflowGoesOn_always(e) == TRUE

\* The for loop over the steps of a workflow has no handler: it goes on to
\* the next step only when the call for the previous one returned.
WorkflowGoesOn(e) == e = NoExc

\* An update that writes the new entry alone.
SetEntry_alone(d, name, entry) == (name :> entry)

\* An update that sets the entry in the lockfile as it is at the write.
SetEntry_fresh(d, name, entry) == (name :> entry) @@ lock.data

\* data[command["name"]] = get_lock_entry(project_dir, command)
SetEntry(d, name, entry) == (name :> entry) @@ d

\* An update that does not look at dry.
after_script_always(dry) == "update"

\* if not dry: update_lockfile(current_dir, cmd)
after_script(dry) == IF dry THEN "exit" ELSE "update"

-----------------------------------------------------------------------------
(* Initial states *)

NoLock == [exists |-> FALSE, data |-> <<>>]
NoArgs == [name |-> "", force |-> FALSE, dry |-> FALSE, capture |-> FALSE]
NoEntry == [cwd |-> "", lock |-> NoLock]

\* The project directory at the start: the source file and an output of an
\* earlier build.
files0 == [f \in Files |-> IF f \in {"src", "out"} THEN <<1>> ELSE Absent]


ovIdle == [pc |-> "off"]
ckIdle == [pc |-> "off"]
raceIdle == <<>>
histNone == [name |-> "", failed |-> "", valid |-> FALSE]

\* The project between calls: its manifest, files, directories and lockfile,
\* and what is remembered of the successful runs so far.
ProjectIdle(m, fs, ds, lk, sn) ==
    /\ manifest = m
    /\ files = fs
    /\ dirs = ds
    /\ lock = lk
    /\ cwd = "home"
    /\ stack = <<>>
    /\ exc = NoExc
    /\ args = NoArgs
    /\ phase = "idle"
    /\ result = NoExc
    /\ data = <<>>
    /\ log = <<>>
    /\ snap = sn
    /\ entry0 = NoEntry
    /\ runs = 0
    /\ edits = 0
    /\ race = raceIdle
    /\ hist = histNone

\* The project with manifest m, before any call.
RunnerIdle(m) ==
    ProjectIdle(m, files0, {}, NoLock, [n \in CommandNames |-> NoSnap])

InitRunner == \E m \in Manifests : RunnerIdle(m)

Init == InitRunner /\ ov = ovIdle /\ ck = ckIdle

-----------------------------------------------------------------------------
(* project_run *)

Logged(e) == log' = Append(log, e)

\* A caller invokes project_run(project_dir, subcommand, force, dry, capture).
Start(name, force, dry, capture) ==
    /\ phase = "idle"
    /\ runs < MaxRuns
    /\ runs' = runs + 1
    /\ phase' = "running"
    /\ args' = [name |-> name, force |-> force, dry |-> dry, capture |-> capture]
    /\ stack' = <<Frame(name)>>
    /\ entry0' = [cwd |-> cwd, lock |-> lock]
    /\ log' = <<>>
    /\ UNCHANGED <<manifest, files, dirs, lock, cwd, exc, result, data, snap, edits, ov, ck,
                   race, hist>>

\* A loader that prints the schema errors and goes on.
schema_exit_none(errors) == NoExc

\* if errors: ...; sys.exit(1)
schema_exit(errors) == IF errors # {} THEN SystemExit(1) ELSE NoExc

\* What load_project_config raises. Without a file that parses, read_yaml
\* raises ValueError (for a missing file as for malformed YAML), the handler
\* only prints, and the use of `config` on the next line raises.
load_raises(config) ==
    IF config.file # "ok" THEN PyError("UnboundLocalError")
    ELSE schema_exit(validate(config))

\* What load_project_config prints on the way.
load_prints(config, name) ==
    IF config.file = "absent"
        THEN <<Event("cant find", name, 0, 0, {}),
               Event("invalid", name, 0, 0, {})>>
    ELSE IF config.file # "ok" THEN <<Event("invalid", name, 0, 0, {})>>
    ELSE IF validate(config) # {} THEN <<Event("schema", name, 0, 1, {})>>
    ELSE IF validate_project_commands(config) # {}
        THEN <<Event("semantic", name, 0, 0, {})>>
    ELSE <<>>

\* load_project_config: read and validate project.yml, create the declared
\* directories.
Load ==
    /\ phase = "running" /\ stack # <<>> /\ exc = NoExc
    /\ Top.pc = "load"
    /\ log' = log \o load_prints(manifest, Top.name)
    /\ IF load_raises(manifest) # NoExc
          THEN /\ exc' = load_raises(manifest)
               /\ UNCHANGED <<dirs, stack>>
          ELSE /\ dirs' = dirs \cup MadeDirs(manifest, files, dirs)
               /\ stack' = SetTop([Top EXCEPT !.pc = "resolve"])
               /\ UNCHANGED exc
    /\ UNCHANGED <<manifest, files, lock, cwd, args, phase, result, data, snap,
                   entry0, runs, edits, ov, ck,
                   race, hist>>

\* validate_subcommand, then the choice between workflow and command.
Resolve ==
    /\ phase = "running" /\ stack # <<>> /\ exc = NoExc
    /\ Top.pc = "resolve"
    /\ LET commands == CommandKeys(manifest)
           workflows == WorkflowKeys(manifest)
       IN IF ~validate_subcommand(commands, workflows, Top.name)
             THEN /\ exc' = SystemExit(1)
                  /\ Logged(Event("unknown", Top.name, 0, 1,
                                  ListedNames(commands, workflows)))
                  /\ UNCHANGED stack
          ELSE /\ stack' = SetTop([Top EXCEPT !.pc =
                        IF Top.name \in workflows THEN "workflow" ELSE "deps"])
               /\ UNCHANGED <<exc, log>>
    /\ UNCHANGED <<manifest, files, dirs, lock, cwd, args, phase, result, data,
                   snap, entry0, runs, edits, ov, ck,
                   race, hist>>

\* A return after which the calling workflow takes no further step.
Returned_end(rest) ==
    IF rest = <<>> THEN rest
    ELSE [rest EXCEPT ![Len(rest)] =
            [@ EXCEPT !.idx = Len(manifest.workflows[rest[Len(rest)].name]) + 1]]

\* The caller of a returning activation goes on to its next step.
Returned(rest) ==
    IF rest = <<>> THEN rest
    ELSE [rest EXCEPT ![Len(rest)] = [@ EXCEPT !.idx = @ + 1]]

\* for cmd in workflows[subcommand]: project_run(project_dir, cmd, ...)
\* The call is made for every step, whatever is on the call stack already; the
\* interpreter raises RecursionError in the caller once the stack is full.
WorkflowStep ==
    /\ phase = "running" /\ stack # <<>> /\ exc = NoExc
    /\ Top.pc = "workflow"
    /\ LET steps == manifest.workflows[Top.name]
       IN IF Top.idx <= Len(steps)
             THEN IF Len(stack) < MaxDepth
                     THEN /\ stack' = Append(stack, Frame(steps[Top.idx]))
                          /\ exc' = exc
                     ELSE /\ stack' = stack
                          /\ exc' = PyError("RecursionError")
             ELSE /\ stack' = Returned(Pop)
                  /\ exc' = exc
    /\ UNCHANGED <<manifest, files, dirs, lock, cwd, args, phase, result,
                   data, log, snap, entry0, runs, edits, ov, ck,
                   race, hist>>

\* The dependencies of the command that do not exist.
MissingDeps(command, fs, ds) ==
    {i \in 1..Len(command.deps) : ~Exists(fs, ds, command.deps[i])}

\* A dependency check that reports and never exits.
missing_dep_exits_never(dry) == NoExc

\* err_kwargs = {"exits": 1} if not dry else {}: what msg.fail ends with.
missing_dep_exits(dry) == IF dry THEN NoExc ELSE SystemExit(1)

\* for dep in cmd.get("deps", []): msg.fail(..., exits=1 unless dry)
CheckDeps ==
    /\ phase = "running" /\ stack # <<>> /\ exc = NoExc
    /\ Top.pc = "deps"
    /\ LET cmd == Commands(manifest)[Top.name]
           missing == MissingDeps(cmd, files, dirs)
           raised == missing_dep_exits(args.dry)
       IN IF missing # {}
             THEN /\ Logged(Event("missing dep", Top.name, 0, raised.status, {}))
                  /\ IF raised = NoExc
                        THEN /\ stack' = SetTop([Top EXCEPT !.pc = "enter"])
                             /\ UNCHANGED exc
                        ELSE /\ exc' = raised
                             /\ UNCHANGED stack
             ELSE /\ stack' = SetTop([Top EXCEPT !.pc = "enter"])
                  /\ UNCHANGED <<exc, log>>
    /\ UNCHANGED <<manifest, files, dirs, lock, cwd, args, phase, result, data,
                   snap, entry0, runs, edits, ov, ck,
                   race, hist>>

\* with working_dir(project_dir): rerun = check_rerun(current_dir, cmd)
EnterWorkingDir ==
    /\ phase = "running" /\ stack # <<>> /\ exc = NoExc
    /\ Top.pc = "enter"
    /\ LET cmd == Commands(manifest)[Top.name]
           rerun == check_rerun(files, dirs, lock, cmd)
       IN stack' = SetTop([Top EXCEPT
                !.prev_cwd = cwd, !.inwd = TRUE, !.idx = 1,
                !.pc = IF ~rerun /\ ~args.force THEN "skip" ELSE "run"])
    /\ cwd' = "project"
    /\ UNCHANGED <<manifest, files, dirs, lock, exc, args, phase, result, data,
                   log, snap, entry0, runs, edits, ov, ck,
                   race, hist>>

\* msg.info("Skipping ...: nothing changed")
Skip ==
    /\ phase = "running" /\ stack # <<>> /\ exc = NoExc
    /\ Top.pc = "skip"
    /\ Logged(Event("skip", Top.name, 0, 0, {}))
    /\ stack' = SetTop([Top EXCEPT !.pc = "exit"])
    /\ UNCHANGED <<manifest, files, dirs, lock, cwd, exc, args, phase, result,
                   data, snap, entry0, runs, edits, ov, ck,
                   race, hist>>

\* run_commands: one turn of its loop. A dry run prints the line; otherwise
\* run_command spawns it and the child exits with some code.
RunLine ==
    /\ phase = "running" /\ stack # <<>> /\ exc = NoExc
    /\ Top.pc = "run"
    /\ LET cmd == Commands(manifest)[Top.name]
       IN /\ Top.idx <= Len(cmd.script)
          /\ IF args.dry
                THEN /\ Logged(Event("print", Top.name, Top.idx, 0, {}))
                     /\ stack' = SetTop([Top EXCEPT !.idx = @ + 1])
                     /\ UNCHANGED <<files, exc>>
                ELSE \E code \in ExitCodes :
                     /\ code = 0 => CanSucceed(cmd.script[Top.idx], files, dirs)
                     /\ Logged(Event("line", Top.name, Top.idx, code, {}))
                     /\ exc' = run_command(cmd.script[Top.idx], code, args.capture)
                     /\ IF code = 0
                           THEN /\ files' = Effect(cmd.script[Top.idx], files)
                                /\ stack' = SetTop([Top EXCEPT !.idx = @ + 1])
                           ELSE UNCHANGED <<files, stack>>
    /\ UNCHANGED <<manifest, dirs, lock, cwd, args, phase, result, data, snap,
                   entry0, runs, edits, ov, ck,
                   race, hist>>

\* The script is through: if not dry: update_lockfile(current_dir, cmd)
EndScript ==
    /\ phase = "running" /\ stack # <<>> /\ exc = NoExc
    /\ Top.pc = "run"
    /\ Top.idx > Len(Commands(manifest)[Top.name].script)
    /\ stack' = SetTop([Top EXCEPT !.pc = after_script(args.dry)])
    /\ UNCHANGED <<manifest, files, dirs, lock, cwd, exc, args, phase, result,
                   data, log, snap, entry0, runs, edits, ov, ck,
                   race, hist>>

\* update_lockfile, first half: create the lockfile if there is none, else
\* read it.
UpdateRead ==
    /\ phase = "running" /\ stack # <<>> /\ exc = NoExc
    /\ Top.pc = "update"
    /\ IF ~lock.exists
          THEN /\ lock' = [exists |-> TRUE, data |-> <<>>]
               /\ data' = <<>>
          ELSE /\ data' = lock.data
               /\ UNCHANGED lock
    /\ stack' = SetTop([Top EXCEPT !.pc = "write"])
    /\ UNCHANGED <<manifest, files, dirs, cwd, exc, args, phase, result, log,
                   snap, entry0, runs, edits, ov, ck,
                   race, hist>>

\* update_lockfile, second half: set the command's entry and write the map.
UpdateWrite ==
    /\ phase = "running" /\ stack # <<>> /\ exc = NoExc
    /\ Top.pc = "write"
    /\ LET cmd == Commands(manifest)[Top.name]
           new == SetEntry(data, cmd.name, get_lock_entry(files, dirs, cmd))
       IN /\ lock' = [exists |-> TRUE, data |-> new]
          /\ data' = <<>>
          /\ snap' = [snap EXCEPT ![cmd.name] = Snapshot(cmd, files, dirs)]
    /\ Logged(Event("lock", Top.name, 0, 0, {}))
    /\ stack' = SetTop([Top EXCEPT !.pc = "exit"])
    /\ UNCHANGED <<manifest, files, dirs, cwd, exc, args, phase, result,
                   entry0, runs, edits, ov, ck,
                   race, hist>>

\* The with block ends normally: working_dir restores the directory and
\* project_run returns.
ExitWorkingDir ==
    /\ phase = "running" /\ stack # <<>> /\ exc = NoExc
    /\ Top.pc = "exit"
    /\ cwd' = working_dir_exit(Top, cwd, FALSE)
    /\ stack' = Returned(Pop)
    /\ UNCHANGED <<manifest, files, dirs, lock, exc, args, phase, result, data,
                   log, snap, entry0, runs, edits, ov, ck,
                   race, hist>>

\* An exception leaves the innermost activation: working_dir's finally clause
\* runs if the activation is inside the with block.
Unwind ==
    /\ phase = "running" /\ stack # <<>> /\ exc # NoExc
    /\ cwd' = IF Top.inwd THEN working_dir_exit(Top, cwd, TRUE) ELSE cwd
    /\ IF Pop # <<>> /\ WorkflowGoesOn(exc)
          THEN stack' = Returned(Pop) /\ exc' = NoExc
          ELSE stack' = Pop /\ UNCHANGED exc
    /\ UNCHANGED <<manifest, files, dirs, lock, args, phase, result, data, log,
                   snap, entry0, runs, edits, ov, ck,
                   race, hist>>

\* The outermost project_run has returned or raised.
Finish ==
    /\ phase = "running" /\ stack = <<>>
    /\ phase' = "done"
    /\ result' = exc
    /\ exc' = NoExc
    /\ UNCHANGED <<manifest, files, dirs, lock, cwd, stack, args, data, log,
                   snap, entry0, runs, edits, ov, ck,
                   race, hist>>

\* The caller has taken the result; h is what is remembered of the call.
ResetTo(h) ==
    /\ phase \in {"done", "shown"}
    /\ phase' = "idle"
    /\ result' = NoExc
    /\ args' = NoArgs
    /\ log' = <<>>
    /\ entry0' = NoEntry
    /\ hist' = h
    /\ UNCHANGED <<manifest, files, dirs, lock, cwd, stack, exc, data, snap,
                   runs, edits, ov, ck, race>>

Reset == ResetTo(hist)

-----------------------------------------------------------------------------
(* The project changes between calls *)

\* The files that are written and removed between calls.
EditedFiles == {"d/x", "out", "src"}

WriteFile(f, bytes) ==
    /\ phase = "idle" /\ edits < MaxEdits
    /\ files[f] # bytes
    /\ \A d \in Dirs : Under(f, d) => d \in dirs
    /\ files' = [files EXCEPT ![f] = bytes]
    /\ edits' = edits + 1
    /\ UNCHANGED <<manifest, dirs, lock, cwd, stack, exc, args, phase, result,
                   data, log, snap, entry0, runs, ov, ck,
                   race, hist>>

RemoveFile(f) ==
    /\ phase = "idle" /\ edits < MaxEdits
    /\ files[f] # Absent
    /\ files' = [files EXCEPT ![f] = Absent]
    /\ edits' = edits + 1
    /\ UNCHANGED <<manifest, dirs, lock, cwd, stack, exc, args, phase, result,
                   data, log, snap, entry0, runs, ov, ck,
                   race, hist>>

EditManifest(m) ==
    /\ phase = "idle" /\ edits < MaxEdits
    /\ m # manifest
    /\ manifest' = m
    /\ edits' = edits + 1
    /\ UNCHANGED <<files, dirs, lock, cwd, stack, exc, args, phase, result,
                   data, log, snap, entry0, runs, ov, ck,
                   race, hist>>

Next ==
    \/ \E name \in RunNames, force, dry, capture \in BOOLEAN :
            Start(name, force, dry, capture)
    \/ Load
    \/ Resolve
    \/ WorkflowStep
    \/ CheckDeps
    \/ EnterWorkingDir
    \/ Skip
    \/ RunLine
    \/ EndScript
    \/ UpdateRead
    \/ UpdateWrite
    \/ ExitWorkingDir
    \/ Unwind
    \/ Finish
    \/ Reset
    \/ \E f \in EditedFiles, bytes \in Contents : WriteFile(f, bytes)
    \/ \E f \in EditedFiles : RemoveFile(f)
    \/ \E m \in EditedManifests : EditManifest(m)

Spec == Init /\ [][Next]_vars

-----------------------------------------------------------------------------
(* Properties of the rerun decision *)

TopOf(s) == s[Len(s)]
Running == phase = "running" /\ stack # <<>> /\ exc = NoExc
\* The running activation is at pc, for a command.
At(pc) == Running /\ Top.pc = pc
CurCmd == Commands(manifest)[Top.name]

\* Two versions of a command that differ in the help text at most.
SameCommand(a, b) ==
    /\ a.name = b.name /\ a.script = b.script /\ a.deps = b.deps
    /\ a.outputs = b.outputs /\ a.outputs_no_cache = b.outputs_no_cache
    /\ a.no_skip = b.no_skip

\* The files the command covers that differ from what its last successful
\* run left.
Differing(command) ==
    {f \in Covered(command) : files[f] # snap[command.name].files[f]}

\* The command had a successful non-dry run, and it and its listed
\* directories are as they were then.
RanBefore(command) ==
    /\ snap[command.name].valid
    /\ SameCommand(snap[command.name].cmd, command)
    /\ dirs \cap Listed(command) = snap[command.name].dirs

\* ... and so are the contents of the files it covers.
Unchanged(command) == RanBefore(command) /\ Differing(command) = {}

\* ... but for the content of one file, which existed and still exists.
ChangedOne(command) ==
    /\ RanBefore(command)
    /\ \E f \in Covered(command) :
        /\ Differing(command) = {f}
        /\ files[f] # Absent /\ snap[command.name].files[f] # Absent

HasOuts(command) == command.outputs # <<>> \/ command.outputs_no_cache # <<>>

\* The step taken from the skip branch: nothing is executed or written.
SkipStep ==
    /\ files' = files /\ dirs' = dirs /\ lock' = lock
    /\ TopOf(stack').pc = "exit"

\* C1 as stated: after a successful non-dry run of a command, a second run
\* with the command and the contents of its deps/outputs unchanged takes the
\* skip branch, which executes no script line and leaves the lockfile alone,
\* unless no_skip or force is set.
C1_Original ==
    /\ [][(At("enter") /\ ~args.force /\ ~CurCmd.no_skip /\ Unchanged(CurCmd))
            => TopOf(stack').pc = "skip"]_vars
    /\ [][At("skip") => SkipStep]_vars

\* C1 amended: the same, for a command that lists at least one path under
\* outputs or outputs_no_cache.
C1_SecondRunSkips ==
    /\ [][(At("enter") /\ ~args.force /\ ~CurCmd.no_skip /\ HasOuts(CurCmd)
            /\ Unchanged(CurCmd)) => TopOf(stack').pc = "skip"]_vars
    /\ [][At("skip") => SkipStep]_vars

C1_Witness ==
    At("skip") /\ ~args.dry /\ Unchanged(CurCmd) /\ HasOuts(CurCmd)

\* C2: after a successful run of a command, with the content of one file it
\* lists (or of one file inside a directory it lists) changed, the next run
\* with force unset does not take the skip branch: it runs the script.
C2_ChangeReruns ==
    ~(At("skip") /\ ~args.force /\ ChangedOne(CurCmd))

C2_Witness ==
    /\ At("run") /\ Top.idx = 1 /\ ~args.force /\ ~args.dry
    /\ ~CurCmd.no_skip /\ HasOuts(CurCmd)
    /\ ChangedOne(CurCmd)
    /\ \E f \in Differing(CurCmd) : \E d \in Dirs : Under(f, d)

\* C3 as stated: a command whose outputs list is empty is never skipped,
\* whatever its outputs_no_cache is.
C3_Original ==
    ~(At("skip") /\ CurCmd.outputs = <<>>)

\* C3 amended: a command whose outputs and outputs_no_cache lists are both
\* empty is never skipped, whatever the lockfile contains.
C3_NoOutputsNeverSkipped ==
    ~(At("skip") /\ ~HasOuts(CurCmd))

C3_Witness ==
    /\ At("run") /\ ~args.force /\ ~HasOuts(CurCmd) /\ ~CurCmd.no_skip
    /\ Unchanged(CurCmd)
    /\ lock.exists /\ CurCmd.name \in DOMAIN lock.data

\* The paths a command declares as outputs.
OutPaths(command) ==
    {command.outputs[i] : i \in 1..Len(command.outputs)}
    \cup {command.outputs_no_cache[i] : i \in 1..Len(command.outputs_no_cache)}

\* The path existed at the end of the command's last successful run; it
\* exists now.
PresentThen(command, path) ==
    Exists(snap[command.name].files, snap[command.name].dirs, path)
PresentNow(path) == Exists(files, dirs, path)

\* C14: the entry update_lockfile writes records an output path with the
\* null digest exactly when the path does not exist, and the write raises
\* nothing; a next run with nothing changed and an output still absent takes
\* the skip branch; a run is never skipped when an output path exists now and
\* did not at the last successful run, or the other way round.
C14_AbsenceIsCompared ==
    /\ [][At("write") =>
            /\ exc' = NoExc
            /\ LET outs == lock'.data[Top.name].outs
               IN \A i \in 1..Len(outs) :
                    outs[i].md5 = NoDigest <=> ~PresentNow(outs[i].path)]_vars
    /\ [][(/\ At("enter") /\ ~args.force /\ ~CurCmd.no_skip
            /\ Unchanged(CurCmd)
            /\ \E p \in OutPaths(CurCmd) : ~PresentNow(p))
                => TopOf(stack').pc = "skip"]_vars
    /\ [](~(/\ At("skip")
            /\ snap[Top.name].valid /\ SameCommand(snap[Top.name].cmd, CurCmd)
            /\ \E p \in OutPaths(CurCmd) :
                    PresentThen(CurCmd, p) # PresentNow(p)))

\* A run is skipped with an output recorded as absent and absent still.
C14_Witness ==
    /\ At("skip")
    /\ \E i \in 1..Len(lock.data[Top.name].outs) :
            /\ lock.data[Top.name].outs[i].md5 = NoDigest
            /\ lock.data[Top.name].outs[i].path \in OutPaths(CurCmd)
            /\ ~PresentNow(lock.data[Top.name].outs[i].path)

\* The lockfile holds for the command exactly the entry a fresh look at the
\* project gives.
EntryUpToDate(command) ==
    /\ lock.exists /\ command.name \in DOMAIN lock.data
    /\ get_hash(get_lock_entry(files, dirs, command))
            = get_hash(lock.data[command.name])

\* The call was for a command and has run every line of its script.
RanWholeScript ==
    LET command == Commands(manifest)[args.name]
    IN \A i \in 1..Len(command.script) :
            \E j \in 1..Len(log) : log[j] = Event("line", args.name, i, 0, {})

\* C11: a command with no_skip set never takes the skip branch: with its
\* dependencies present, check_rerun sends it to run_commands whatever the
\* lockfile holds and whether force is set or not, and a non-dry call for it
\* that returns has run every line of its script.
C11_NoSkipAlwaysRuns ==
    /\ [][(At("enter") /\ CurCmd.no_skip) => TopOf(stack').pc = "run"]_vars
    /\ [](~(At("skip") /\ CurCmd.no_skip))
    /\ []((/\ phase = "done" /\ result = NoExc /\ ~args.dry
           /\ manifest.file = "ok"
           /\ args.name \in CommandKeys(manifest) \ WorkflowKeys(manifest)
           /\ Commands(manifest)[args.name].no_skip) => RanWholeScript)

\* A second run, force unset, nothing changed, the stored entry up to date:
\* the script runs again.
C11_Witness ==
    /\ At("run") /\ Top.idx > 1 /\ ~args.force /\ ~args.dry
    /\ CurCmd.no_skip /\ HasOuts(CurCmd)
    /\ Unchanged(CurCmd) /\ EntryUpToDate(CurCmd)

-----------------------------------------------------------------------------
(* Properties of the execution *)

\* A step of the call failed: a script line exited non-zero, or a dependency
\* was missing in a non-dry run.
IsFailure(e) == e.ev \in {"line", "missing dep"} /\ e.code # 0
Failures == {i \in 1..Len(log) : IsFailure(log[i])}
LinesRun == {i \in 1..Len(log) : log[i].ev = "line"}

\* C4: once a step of a workflow has failed, no script line of a later step
\* is executed, with capture on and off, and the call ends with the failure:
\* the exit status of the failed line, or the SubprocessError that carries it.
C4_FailureStopsWorkflow ==
    /\ \A i \in Failures : \A j \in LinesRun : j <= i
    /\ (phase = "done" /\ Failures # {}) =>
            \E i \in Failures :
                /\ result.status = log[i].code
                /\ result.kind = IF log[i].ev = "line" /\ args.capture
                                    THEN "SubprocessError" ELSE "SystemExit"

C4_Witness ==
    /\ phase = "done" /\ args.capture
    /\ args.name \in WorkflowKeys(manifest)
    /\ Len(manifest.workflows[args.name]) = 2
    /\ \E i \in Failures :
            /\ log[i].ev = "line"
            /\ log[i].name = manifest.workflows[args.name][1]
    /\ result.kind = "SubprocessError"

\* The script lines of the running command have all been run in this
\* activation, each exiting zero.
ScriptSucceeded ==
    LET n == Len(CurCmd.script)
        k == Len(log)
    IN /\ k >= n
       /\ \A i \in 1..n : log[k - n + i] = Event("line", Top.name, i, 0, {})

\* C5: the lockfile is created or modified only by the update at the end of
\* a non-dry execution of a command whose script lines all exited zero; a
\* failed line is the last line run.
C5_LockWrittenOnSuccess ==
    /\ [][lock' # lock =>
            /\ Running /\ Top.pc \in {"update", "write"}
            /\ ~args.dry
            /\ ScriptSucceeded]_vars
    /\ [](\A i \in LinesRun : log[i].code # 0 => i = Len(log))

\* A run whose second script line failed has ended: the first line did its
\* work, the lockfile is as it was.
C5_Witness ==
    /\ phase = "done" /\ ~args.dry /\ args.force
    /\ \E i \in LinesRun : log[i].i = 2 /\ log[i].code # 0
    /\ entry0.lock.exists
    /\ lock = entry0.lock

\* A dependency of the running command does not exist.
DepMissing == MissingDeps(CurCmd, files, dirs) # {}

\* C12: at the dependency check of a command with a missing dependency, a
\* non-dry call raises SystemExit(1) on the spot, leaving files, directories
\* and lockfile alone, and nothing more happens in the call: the report is
\* the last thing it does and the call ends with status 1. A dry call
\* reports the dependency and goes on into the with block.
C12_MissingDepFails ==
    /\ [][(At("deps") /\ DepMissing /\ ~args.dry) =>
            /\ exc' = SystemExit(1)
            /\ files' = files /\ dirs' = dirs /\ lock' = lock]_vars
    /\ [][(At("deps") /\ DepMissing /\ args.dry) =>
            /\ exc' = NoExc
            /\ TopOf(stack').pc = "enter"
            /\ log' = Append(log, Event("missing dep", Top.name, 0, 0, {}))]_vars
    /\ [](\A i \in 1..Len(log) :
            (log[i].ev = "missing dep" /\ ~args.dry) =>
                /\ i = Len(log)
                /\ \A j \in LinesRun : log[j].name # log[i].name
                /\ phase = "done" => result = SystemExit(1))

\* A non-dry call for a command has ended on a missing dependency, with a
\* lockfile there was to write to.
C12_Witness ==
    /\ phase = "done" /\ ~args.dry /\ result = SystemExit(1)
    /\ log # <<>> /\ log[Len(log)].ev = "missing dep"
    /\ LinesRun = {}
    /\ entry0.lock.exists /\ lock = entry0.lock

\* The script line a "line" event of the log is about.
LineOf(e) == Commands(manifest)[e.name].script[e.i]

\* The exception in flight, or the one the call has ended with.
Raised == IF phase = "done" THEN result ELSE exc

\* C19: a script line that exits non-zero is the last thing the call does.
\* With capture off the call ends with SystemExit of exactly the line's exit
\* status, through every enclosing workflow; with capture on it ends with a
\* SubprocessError that carries the line, its exit status and its captured
\* output.
C19_NonZeroExit ==
    \A i \in LinesRun :
        log[i].code # 0 =>
            /\ i = Len(log)
            /\ Raised = IF args.capture
                            THEN [kind |-> "SubprocessError",
                                  status |-> log[i].code,
                                  line |-> LineOf(log[i]),
                                  stdout |-> Stdout(LineOf(log[i]), log[i].code)]
                            ELSE SystemExit(log[i].code)

\* A workflow has ended with the exit status 2 of a line of its first step.
C19_Witness ==
    /\ phase = "done" /\ ~args.capture
    /\ args.name \in WorkflowKeys(manifest)
    /\ result = SystemExit(2)
    /\ log # <<>> /\ log[Len(log)].ev = "line" /\ log[Len(log)].code = 2
    /\ log[Len(log)].name = manifest.workflows[args.name][1]

\* The manifest parses and fails schema validation.
SchemaInvalid(config) == config.file = "ok" /\ UnknownCommandKeys(config) # {}

\* C16: with a manifest that fails schema validation, the load raises
\* SystemExit(1) and no step of the call creates a directory, changes a file
\* or writes the lockfile; the call runs no script line and ends with
\* status 1.
C16_SchemaErrorAborts ==
    /\ [][(At("load") /\ SchemaInvalid(manifest)) => exc' = SystemExit(1)]_vars
    /\ [][(phase = "running" /\ SchemaInvalid(manifest)) =>
            dirs' = dirs /\ files' = files /\ lock' = lock]_vars
    /\ []((phase \in {"running", "done"} /\ SchemaInvalid(manifest)) =>
            /\ LinesRun = {}
            /\ lock = entry0.lock
            /\ phase = "done" => result = SystemExit(1))

\* A call for a command of a manifest that declares a directory and fails
\* validation has ended; the directory is not there.
C16_Witness ==
    /\ phase = "done" /\ SchemaInvalid(manifest)
    /\ args.name \in CommandKeys(manifest)
    /\ \E i \in 1..Len(manifest.directories) : manifest.directories[i] \notin dirs
    /\ result = SystemExit(1)

\* A schema error was reported in the call.
SchemaReported == \E i \in 1..Len(log) : log[i].ev = "schema"

C18_ManifestNotFound ==
    (phase = "done" /\ manifest.file = "absent") =>
        /\ result # NoExc
        /\ result.kind \notin {load_raises(mMalformed).kind,
                                load_raises(mSchema).kind}
        /\ \A i \in 1..Len(log) : log[i].ev # "invalid"
        /\ LinesRun = {}
        /\ lock = entry0.lock

\* The manifest has a semantic error: a workflow named as a command is, or a
\* workflow step that is no command.
SemanticError(config) ==
    \E w \in WorkflowKeys(config) :
        \/ w \in CommandKeys(config)
        \/ \E i \in 1..Len(config.workflows[w]) :
                config.workflows[w][i] \notin CommandKeys(config)

\* C6: with a semantic error in the manifest, a call executes no script line
\* and writes no lockfile, whatever name is asked for.
C6_SemanticErrorAborts ==
    (phase # "idle" /\ manifest.file = "ok" /\ SemanticError(manifest)) =>
        /\ LinesRun = {}
        /\ lock = entry0.lock

\* C8: a call with a name that is neither a command nor a workflow of the
\* manifest ends with status 1, its message lists the commands and the
\* workflows, and the lockfile is as it was at the entry.
C8_UnknownNameFails ==
    (/\ phase = "done"
     /\ manifest.file = "ok" /\ validate(manifest) = {}
     /\ args.name \notin CommandKeys(manifest) \cup WorkflowKeys(manifest)) =>
        /\ result = SystemExit(1)
        /\ log # <<>>
        /\ log[Len(log)] = Event("unknown", args.name, 0, 1,
                CommandKeys(manifest) \cup WorkflowKeys(manifest))
        /\ lock = entry0.lock

C8_Witness ==
    /\ phase = "done" /\ args.name = "Z"
    /\ manifest.file = "ok" /\ validate(manifest) = {}
    /\ WorkflowKeys(manifest) # {}
    /\ entry0.lock.exists
    /\ result.status = 1

\* C9: the working directory at the end of a call is the one at its entry,
\* however the call ends, and every activation of project_run (every step
\* of a workflow) starts in it.
C9_WorkingDirRestored ==
    /\ phase = "done" => cwd = entry0.cwd
    /\ At("load") => cwd = entry0.cwd

\* A workflow whose second step raised.
C9_Witness ==
    /\ phase = "done" /\ args.name \in WorkflowKeys(manifest)
    /\ result.kind = "SubprocessError"
    /\ \E i \in LinesRun : log[i].code = 0
    /\ cwd = "home"

\* C10: a write of the lockfile for a command keeps every entry stored under
\* another name as it was, and the names stored are the old ones and the
\* command's.
C10_OtherEntriesKept ==
    [][lock' # lock =>
        /\ \A n \in DOMAIN lock.data :
                n # Top.name => /\ n \in DOMAIN lock'.data
                                /\ lock'.data[n] = lock.data[n]
        /\ DOMAIN lock'.data \subseteq DOMAIN lock.data \cup {Top.name}]_vars

\* The entry of a command has just been written next to the entry of a
\* command that is no longer in the manifest.
C10_Witness ==
    /\ At("exit") /\ log # <<>> /\ log[Len(log)].ev = "lock"
    /\ Top.name \in DOMAIN lock.data
    /\ \E n \in DOMAIN lock.data : n \notin CommandKeys(manifest)

\* The workflows a workflow names as steps, and the workflows reached from a
\* set of workflows in at most n calls.
StepWorkflows(config, w) ==
    {config.workflows[w][i] : i \in 1..Len(config.workflows[w])}
        \cap WorkflowKeys(config)
RECURSIVE Reached(_, _, _)
Reached(config, ws, n) ==
    IF n = 0 THEN ws
    ELSE Reached(config,
                 ws \cup UNION {StepWorkflows(config, w) : w \in ws}, n - 1)
\* The workflow leads back to itself, directly or through other workflows.
LeadsBack(config, w) ==
    /\ config.file = "ok" /\ w \in WorkflowKeys(config)
    /\ w \in Reached(config, StepWorkflows(config, w),
                      Cardinality(WorkflowKeys(config)))
\* Every step of every workflow is the name of a command or of a workflow.
StepsKnown(config) ==
    \A w \in WorkflowKeys(config) : \A i \in 1..Len(config.workflows[w]) :
        config.workflows[w][i] \in CommandKeys(config) \cup WorkflowKeys(config)



\* C21 as stated: a call on a workflow that leads back to itself never
\* completes, unless a script line or a dependency check of a step fails.
C21_Original ==
    ~(/\ phase = "done" /\ LeadsBack(manifest, args.name)
      /\ StepsKnown(manifest) /\ Failures = {})

\* C21: workflow expansion has no cycle guard. A step is called whatever the
\* call stack holds, the step's own name included, as long as the interpreter
\* allows one more call. A call on a workflow that leads back to itself
\* never returns normally: unless a script line or a dependency check fails
\* first, it ends with the interpreter's RecursionError.
C21_NoCycleGuard ==
    /\ [][(/\ At("workflow") /\ Len(stack) < MaxDepth
            /\ Top.idx <= Len(manifest.workflows[Top.name])) =>
            stack' = Append(stack,
                            Frame(manifest.workflows[Top.name][Top.idx]))]_vars
    /\ []((/\ phase = "done" /\ LeadsBack(manifest, args.name)
           /\ StepsKnown(manifest)) =>
            /\ result # NoExc
            /\ Failures = {} => result = PyError("RecursionError"))

\* A workflow is entered while it is on the call stack already, after a
\* script line of a step of the cycle has run.
C21_Witness ==
    /\ At("load") /\ Len(stack) > 1
    /\ Top.name \in {stack[i].name : i \in 1..(Len(stack) - 1)}
    /\ LeadsBack(manifest, Top.name)
    /\ LinesRun # {}


\* The events of the log that are about a step, and the steps of the
\* workflow the call is for.
EventsOf(n) == {i \in 1..Len(log) : log[i].name = n /\
                    log[i].ev \in {"skip", "line", "print", "lock"}}
Skipped(n) == \E i \in EventsOf(n) : log[i].ev = "skip"
Locked(n) == \E i \in EventsOf(n) : log[i].ev = "lock"
CalledSteps == manifest.workflows[args.name]

\* C27: a skipped step does not stop a workflow. The skip raises nothing and
\* returns to the workflow, which goes on to its next step; a workflow that
\* has ended normally has skipped or executed each of its steps in turn,
\* and a non-dry execution has written the step's entry; the entries that
\* differ from what the lockfile held when the call began are those of the
\* steps executed, so the entry of a step that was skipped is as it was.
C27_SkipGoesOn ==
    /\ [][At("skip") => exc' = NoExc /\ TopOf(stack').pc = "exit"]_vars
    /\ [][(At("exit") /\ Len(stack) > 1) =>
            /\ exc' = NoExc /\ Len(stack') = Len(stack) - 1
            /\ TopOf(stack').idx = stack[Len(stack) - 1].idx + 1]_vars
    /\ [](phase \in {"running", "done"} =>
            /\ \A n \in DOMAIN entry0.lock.data :
                    /\ n \in DOMAIN lock.data
                    /\ lock.data[n] # entry0.lock.data[n] => Locked(n)
            /\ \A n \in DOMAIN lock.data :
                    n \notin DOMAIN entry0.lock.data => Locked(n)
            /\ \A n \in CommandNames : (Skipped(n) /\ ~Locked(n)) =>
                    /\ n \in DOMAIN lock.data
                    /\ lock.data[n] = entry0.lock.data[n])
    /\ []((/\ phase = "done" /\ result = NoExc /\ manifest.file = "ok"
           /\ args.name \in WorkflowKeys(manifest)) =>
            \A k \in 1..Len(CalledSteps) :
                /\ EventsOf(CalledSteps[k]) # {}
                /\ ~args.dry => (Skipped(CalledSteps[k]) \/ Locked(CalledSteps[k]))
                /\ \A h \in 1..(k - 1) :
                    \E i \in EventsOf(CalledSteps[h]) :
                        \A j \in EventsOf(CalledSteps[k]) : i < j)

\* The workflow [A, B] has ended normally: A, up to date, was skipped and its
\* entry is as it was; B, whose entry was stale, was executed after that and
\* its entry written.
C27_Witness ==
    /\ phase = "done" /\ result = NoExc /\ ~args.dry /\ ~args.force
    /\ manifest.file = "ok" /\ args.name \in WorkflowKeys(manifest)
    /\ CalledSteps = <<"A", "B">>
    /\ Skipped("A") /\ ~Locked("A") /\ Locked("B") /\ ~Skipped("B")
    /\ ~Commands(manifest)["B"].no_skip
    /\ entry0.lock.exists /\ "B" \in DOMAIN entry0.lock.data
    /\ lock.data["A"] = entry0.lock.data["A"]
    /\ \A i \in EventsOf("A") : \A j \in EventsOf("B") : i < j

-----------------------------------------------------------------------------
(* Config overrides: parse_config_overrides and _parse_overrides *)

\* Strings are sequences of characters.
MaxTokens == 2

TrueText == <<"t", "r", "u", "e">>
Digits == {"0", "1", "2", "3", "4", "5", "6", "7", "8", "9"}

Has(str, ch) == \E i \in 1..Len(str) : str[i] = ch
\* The position of the first ch in str.
First(str, ch) == CHOOSE i \in 1..Len(str) :
                        str[i] = ch /\ \A j \in 1..(i - 1) : str[j] # ch

\* str.startswith("--")
StartsWithDashes(str) == Len(str) >= 2 /\ str[1] = "-" /\ str[2] = "-"

RECURSIVE RemoveDashes(_)
\* str.replace("--", ""): every occurrence goes, from the left.
RemoveDashes(str) ==
    IF Len(str) < 2 THEN str
    ELSE IF str[1] = "-" /\ str[2] = "-"
            THEN RemoveDashes(SubSeq(str, 3, Len(str)))
            ELSE <<str[1]>> \o RemoveDashes(Tail(str))

\* str.replace("-", "_")
Underscored(str) == [i \in 1..Len(str) |-> IF str[i] = "-" THEN "_" ELSE str[i]]

RECURSIVE SkipDigits(_, _)
\* The first position from i on that holds no digit.
SkipDigits(str, i) ==
    IF i <= Len(str) /\ str[i] \in Digits THEN SkipDigits(str, i + 1) ELSE i

\* The text is a JSON number: -? (0 | [1-9][0-9]*) (. [0-9]+)?  (the model's
\* texts hold no exponent).
IsNumber(str) ==
    LET i0 == IF Len(str) >= 1 /\ str[1] = "-" THEN 2 ELSE 1
        i1 == SkipDigits(str, i0)
        i2 == SkipDigits(str, i1 + 1)
    IN /\ i1 > i0
       /\ str[i0] = "0" => i1 = i0 + 1
       /\ \/ i1 = Len(str) + 1
          \/ i1 <= Len(str) /\ str[i1] = "." /\ i2 > i1 + 1 /\ i2 = Len(str) + 1

\* _parse_override: json_loads(value), or the string itself if that fails.
\* The texts of the model are numbers, the literal true, or no JSON at all.
parse_override(value) ==
    IF value = TrueText THEN [type |-> "bool", text |-> value]
    ELSE IF IsNumber(value) THEN [type |-> "number", text |-> value]
    ELSE [type |-> "str", text |-> value]

Parsed(err, res) == [err |-> err, result |-> res]

\* A test that sees a flag only in the last token.
NoValue_last(rest) == rest = <<>>

\* if not args or args[0].startswith("--"): flag with no value
NoValue(rest) == rest = <<>> \/ StartsWithDashes(Head(rest))

RECURSIVE parse_overrides(_, _, _)
\* _parse_overrides: the loop `while args`, with the result so far.
parse_overrides(tokens, res, is_cli) ==
    IF tokens = <<>> THEN Parsed("none", res)
    ELSE LET orig_opt == Head(tokens)
             rest == Tail(tokens)
             opt == RemoveDashes(orig_opt)
         IN IF ~StartsWithDashes(orig_opt) THEN Parsed("SystemExit", <<>>)
            ELSE IF ~Has(opt, ".")
                THEN Parsed(IF is_cli THEN "NoSuchOption" ELSE "SystemExit", <<>>)
            ELSE IF Has(opt, "=")
                THEN LET at == First(opt, "=")
                         key == Underscored(SubSeq(opt, 1, at - 1))
                         value == SubSeq(opt, at + 1, Len(opt))
                     IN parse_overrides(rest,
                            (key :> parse_override(value)) @@ res, is_cli)
            ELSE IF NoValue(rest)
                THEN parse_overrides(rest,
                        (opt :> parse_override(TrueText)) @@ res, is_cli)
            ELSE parse_overrides(Tail(rest),
                        (opt :> parse_override(Head(rest))) @@ res, is_cli)

\* A merge in which the command line has the last word.
MergeOverrides_cli(cli_overrides, env_overrides) == cli_overrides @@ env_overrides

\* return {**cli_overrides, **env_overrides}
MergeOverrides(cli_overrides, env_overrides) == env_overrides @@ cli_overrides

\* The tokens of the model.
Tokens == {
    <<"-", "-", "a", ".", "b", "=", "1">>,
    <<"-", "-", "a", ".", "b">>,
    <<"-", "-", "a", "-", "b", ".", "c", "=", "a">>,
    <<"-", "-", "a", "-", "b", ".", "c">>,
    <<"-", "-", "a", ".", "b", "=", "-", "-", "a">>,
    <<"-", "-", "a">>,
    <<"a">>,
    <<"0", "1">> }

TokenLists == UNION {[1..n -> Tokens] : n \in 0..MaxTokens}

\* A call of parse_config_overrides: args are the command line's tokens, env
\* the tokens split_arg_string makes of the environment variable.
InitOv ==
    /\ RunnerIdle(mBase)
    /\ ck = ckIdle
    /\ \E cli \in TokenLists, env \in TokenLists :
        ov = [pc |-> "env", args |-> cli, env |-> env,
              env_overrides |-> <<>>, cli_overrides |-> <<>>,
              out |-> <<>>, err |-> "none"]

\* env_overrides = _parse_overrides(split_arg_string(env_string))
ParseEnv ==
    /\ ov.pc = "env"
    /\ LET r == parse_overrides(ov.env, <<>>, FALSE)
       IN ov' = [ov EXCEPT !.env_overrides = r.result, !.err = r.err,
                           !.pc = IF r.err = "none" THEN "cli" ELSE "raised"]
    /\ UNCHANGED <<runnerVars, ck>>

\* cli_overrides = _parse_overrides(args, is_cli=True)
ParseCli ==
    /\ ov.pc = "cli"
    /\ LET r == parse_overrides(ov.args, <<>>, TRUE)
       IN ov' = [ov EXCEPT !.cli_overrides = r.result, !.err = r.err,
                           !.pc = IF r.err = "none" THEN "merge" ELSE "raised"]
    /\ UNCHANGED <<runnerVars, ck>>

\* return {**cli_overrides, **env_overrides}
Merge ==
    /\ ov.pc = "merge"
    /\ ov' = [ov EXCEPT !.out = MergeOverrides(ov.cli_overrides, ov.env_overrides),
                        !.pc = "done"]
    /\ UNCHANGED <<runnerVars, ck>>

NextOv == ParseEnv \/ ParseCli \/ Merge

SpecOv == InitOv /\ [][NextOv]_vars

\* Token i is a --key token; a --key token without "=".
IsKeyAt(tokens, i) == StartsWithDashes(tokens[i])
BareKeyAt(tokens, i) == IsKeyAt(tokens, i) /\ ~Has(tokens[i], "=")
\* Token i is the value of the --key token before it.
IsValueAt(tokens, i) ==
    ~StartsWithDashes(tokens[i]) /\ i > 1 /\ BareKeyAt(tokens, i - 1)

\* The key a --key token sets.
KeyName(token) ==
    LET opt == SubSeq(token, 3, Len(token))
    IN IF Has(opt, "=") THEN Underscored(SubSeq(opt, 1, First(opt, "=") - 1))
       ELSE opt

\* The list parsed to res: every token was taken as a key or as the value of
\* the key before it; the keys of res are those of the key tokens; and the
\* last token that sets a key, when it has no "=", gives it the next token
\* if that does not start with "--", and true otherwise.
TokensConsumedOnce(tokens, res) ==
    /\ \A i \in 1..Len(tokens) : IsKeyAt(tokens, i) \/ IsValueAt(tokens, i)
    /\ DOMAIN res = {KeyName(tokens[i]) :
                        i \in {j \in 1..Len(tokens) : IsKeyAt(tokens, j)}}
    /\ \A i \in 1..Len(tokens) :
        (/\ BareKeyAt(tokens, i)
         /\ \A j \in (i + 1)..Len(tokens) :
                IsKeyAt(tokens, j) => KeyName(tokens[j]) # KeyName(tokens[i])) =>
            res[KeyName(tokens[i])] =
                IF i = Len(tokens) \/ StartsWithDashes(tokens[i + 1])
                    THEN [type |-> "bool", text |-> TrueText]
                    ELSE parse_override(tokens[i + 1])

\* C20: in a list of override tokens that parses, a --key token without "="
\* takes the next token as its value when that does not start with "--", and
\* is true when it is the last token or the next one starts with "--", which
\* is then parsed as a key; every token is used once, as a key or as a value.
C20_FlagTokens ==
    /\ ov.pc \in {"cli", "merge", "done"} =>
            TokensConsumedOnce(ov.env, ov.env_overrides)
    /\ ov.pc \in {"merge", "done"} =>
            TokensConsumedOnce(ov.args, ov.cli_overrides)

\* The command line was a --key token and its value.
C20_Witness ==
    /\ ov.pc = "done" /\ Len(ov.args) = 2
    /\ BareKeyAt(ov.args, 1) /\ IsValueAt(ov.args, 2)
    /\ ov.cli_overrides[KeyName(ov.args[1])] = parse_override(ov.args[2])
    /\ DOMAIN ov.cli_overrides = {KeyName(ov.args[1])}

\* The keys both sources set.
BothSet == DOMAIN ov.cli_overrides \cap DOMAIN ov.env_overrides

ValueText(token) == SubSeq(token, First(token, "=") + 1, Len(token))
\* No later token of the list sets the key that token i sets.
LastSetter(tokens, i) ==
    \A j \in (i + 1)..Len(tokens) :
        IsKeyAt(tokens, j) => KeyName(tokens[j]) # KeyName(tokens[i])

\* C24: in a list of command-line tokens that parses, a --key=value token
\* sets the key that is the text between the leading "--" and the first "=",
\* dashes turned into underscores, to the decoded text after the first "=",
\* taken character for character.
C24_KeyValueTokens ==
    ov.pc = "done" =>
        \A i \in 1..Len(ov.args) :
            (/\ IsKeyAt(ov.args, i) /\ Has(ov.args[i], "=")
             /\ LastSetter(ov.args, i)) =>
                /\ KeyName(ov.args[i]) \in DOMAIN ov.cli_overrides
                /\ ov.cli_overrides[KeyName(ov.args[i])]
                        = parse_override(ValueText(ov.args[i]))

\* C28: the token --key=value in one source and the token pair --key value
\* in the other give the same mapping: the same key with the same decoded
\* value.
C28_FormsEquivalent ==
    (/\ ov.pc = "done" /\ Len(ov.env) = 1 /\ Len(ov.args) = 2
     /\ BareKeyAt(ov.args, 1) /\ IsValueAt(ov.args, 2)
     /\ ov.env[1] = ov.args[1] \o <<"=">> \o ov.args[2]) =>
        ov.env_overrides = ov.cli_overrides

-----------------------------------------------------------------------------
(* Directory checksums: get_checksum on a directory, before and after a     *)
(* change of what the directory holds                                        *)

MaxChanges == 2

DirFiles(d) == {f \in Files : Under(f, d)}
Range(seq) == {seq[i] : i \in 1..Len(seq)}

\* The place of a path in the order of paths.
Rank(f) == CHOOSE i \in 1..Len(FileOrder) : FileOrder[i] = f

\* sorted(fp for fp in ...): the same paths, by increasing path.
sorted(listing) ==
    CHOOSE s \in [1..Len(listing) -> Range(listing)] :
        \A i, j \in 1..Len(listing) : i < j => Rank(s[i]) < Rank(s[j])

\* path.rglob("*") with is_file(): the regular files under the directory, in
\* whatever order the file system enumerates them.
Listings(fs, d) ==
    LET present == {f \in DirFiles(d) : fs[f] # Absent}
    IN {s \in [1..Cardinality(present) -> present] : Range(s) = present}

\* get_checksum for a directory whose files rglob yields as `listing`.
dir_checksum(fs, d, listing) == Md5(DirBytes(fs, d, sorted(listing), 1))

InitSum ==
    /\ RunnerIdle(mBase)
    /\ ov = ovIdle
    /\ \E x, y \in Contents \cup {Absent} :
        LET fs == [files0 EXCEPT !["d/x"] = x, !["d/y"] = y]
        IN ck = [pc |-> "first", fs0 |-> fs, fs |-> fs, changes |-> 0,
                 sum1 |-> NoDigest, sum2 |-> NoDigest]

\* The checksum of the directory is taken.
SumFirst ==
    /\ ck.pc = "first"
    /\ \E listing \in Listings(ck.fs, "d") :
        ck' = [ck EXCEPT !.sum1 = dir_checksum(ck.fs, "d", listing),
                         !.pc = "change"]
    /\ UNCHANGED <<runnerVars, ov>>

\* A file of the directory is written.
SumWrite(f, bytes) ==
    /\ ck.pc = "change" /\ ck.changes < MaxChanges
    /\ ck.fs[f] # bytes
    /\ ck' = [ck EXCEPT !.fs[f] = bytes, !.changes = @ + 1]
    /\ UNCHANGED <<runnerVars, ov>>

\* A file of the directory is removed.
SumRemove(f) ==
    /\ ck.pc = "change" /\ ck.changes < MaxChanges
    /\ ck.fs[f] # Absent
    /\ ck' = [ck EXCEPT !.fs[f] = Absent, !.changes = @ + 1]
    /\ UNCHANGED <<runnerVars, ov>>

\* The checksum is taken again.
SumSecond ==
    /\ ck.pc = "change"
    /\ \E listing \in Listings(ck.fs, "d") :
        ck' = [ck EXCEPT !.sum2 = dir_checksum(ck.fs, "d", listing),
                         !.pc = "done"]
    /\ UNCHANGED <<runnerVars, ov>>

NextSum ==
    \/ SumFirst
    \/ \E f \in DirFiles("d"), bytes \in Contents : SumWrite(f, bytes)
    \/ \E f \in DirFiles("d") : SumRemove(f)
    \/ SumSecond

SpecSum == InitSum /\ [][NextSum]_vars

\* The files the first checksum included whose content is another now, or
\* that are gone.
SumChanged == {f \in DirFiles("d") : ck.fs0[f] # Absent /\ ck.fs[f] # ck.fs0[f]}

\* C13: two checksums of a directory are equal when its files are the same,
\* in whatever order they are enumerated, and differ when a file the first
\* checksum included has another content or has been removed.
C13_DirChecksumTracksFiles ==
    ck.pc = "done" =>
        /\ ck.fs = ck.fs0 => ck.sum2 = ck.sum1
        /\ SumChanged # {} => ck.sum2 # ck.sum1

-----------------------------------------------------------------------------
(* Help and documentation: print_run_help and project_document *)

\* The names print_run_help is asked about; "" is no subcommand.
HelpNames == RunNames \cup {""}
\* The output files of project_document; "-" is the standard output.
OutputFiles == {"-", "doc"}

\* What print_run_help raises: the loader's exception, validate_subcommand's
\* exit, or the KeyError of commands[step] for a step that is no command.
help_raises(config, subcommand) ==
    LET commands == CommandKeys(config)
        workflows == WorkflowKeys(config)
    IN IF load_raises(config) # NoExc THEN load_raises(config)
       ELSE IF subcommand = "" THEN NoExc
       ELSE IF ~validate_subcommand(commands, workflows, subcommand)
           THEN SystemExit(1)
       ELSE IF subcommand \in commands THEN NoExc
       ELSE IF \E i \in 1..Len(config.workflows[subcommand]) :
                    config.workflows[subcommand][i] \notin commands
           THEN PyError("KeyError")
       ELSE NoExc

\* The directories that exist after load_project_config.
load_dirs(config, fs, ds) ==
    IF load_raises(config) = NoExc THEN ds \cup MadeDirs(config, fs, ds) ELSE ds

\* md.text: MARKER_START (4), the tables of the manifest, MARKER_END (5).
Rendered(config) == <<4, Len(config.commands), 5>>

\* The content project_document leaves in an output file that held
\* `existing`; MARKER_IGNORE is 3.
document_content(config, existing) ==
    IF existing = Absent THEN Rendered(config)
    ELSE IF Has(existing, 3) THEN existing
    ELSE IF Has(existing, 4) /\ Has(existing, 5)
        THEN SubSeq(existing, 1, First(existing, 4) - 1)
                \o Rendered(config)
                \o SubSeq(existing, First(existing, 5) + 1, Len(existing))
    ELSE Rendered(config)

\* The lockfile a run of A leaves in the initial project.
lockA == [exists |-> TRUE, data |-> ("A" :> get_lock_entry(files0, {}, cmdA))]

InitDoc ==
    /\ manifest \in Manifests
    /\ \E existing \in {Absent, <<1>>, <<3>>} :
            files = [files0 EXCEPT !["doc"] = existing]
    /\ dirs \in {{}, {"d"}}
    /\ lock \in {NoLock, lockA}
    /\ cwd = "home"
    /\ stack = <<>>
    /\ exc = NoExc
    /\ args = NoArgs
    /\ phase = "idle"
    /\ result = NoExc
    /\ data = <<>>
    /\ log = <<>>
    /\ snap = [n \in CommandNames |-> NoSnap]
    /\ entry0 = NoEntry
    /\ runs = 0
    /\ edits = 0
    /\ ov = ovIdle
    /\ ck = ckIdle
    /\ race = raceIdle
    /\ hist = histNone

\* print_run_help(project_dir, subcommand)
PrintRunHelp(subcommand) ==
    /\ phase = "idle"
    /\ phase' = "shown"
    /\ args' = [NoArgs EXCEPT !.name = subcommand]
    /\ dirs' = load_dirs(manifest, files, dirs)
    /\ result' = help_raises(manifest, subcommand)
    /\ log' = <<Event("help", subcommand, 0, 0, {})>>
                \o load_prints(manifest, subcommand)
    /\ UNCHANGED <<manifest, files, lock, cwd, stack, exc, data, snap, entry0,
                   runs, edits, ov, ck,
                   race, hist>>

\* project_document(project_dir, output_file)
ProjectDocument(output_file) ==
    /\ phase = "idle"
    /\ phase' = "shown"
    /\ args' = [NoArgs EXCEPT !.name = output_file]
    /\ dirs' = load_dirs(manifest, files, dirs)
    /\ files' = IF load_raises(manifest) = NoExc /\ output_file # "-"
                    THEN [files EXCEPT ![output_file] =
                            document_content(manifest, files[output_file])]
                    ELSE files
    /\ result' = load_raises(manifest)
    /\ log' = <<Event("document", output_file, 0, 0, {})>>
                \o load_prints(manifest, output_file)
    /\ UNCHANGED <<manifest, lock, cwd, stack, exc, data, snap, entry0, runs,
                   edits, ov, ck,
                   race, hist>>

NextDoc ==
    \/ \E subcommand \in HelpNames : PrintRunHelp(subcommand)
    \/ \E output_file \in OutputFiles : ProjectDocument(output_file)
    \/ Reset

SpecDoc == InitDoc /\ [][NextDoc]_vars

\* A step of the help or of the documentation operation.
ShownStep == phase = "idle" /\ phase' = "shown"

\* C15: print_run_help and project_document leave the lockfile, the
\* directories and every file of the project directory as they were, but for
\* the output file project_document was asked to write.
C15_HelpAndDocumentReadOnly ==
    [][ShownStep =>
        /\ lock' = lock
        /\ dirs' = dirs
        /\ \A f \in Files :
                \/ files'[f] = files[f]
                \/ log'[1].ev = "document" /\ log'[1].name = f]_vars

-----------------------------------------------------------------------------
(* Two instances of the runner in one project directory: each has loaded    *)
(* the manifest and decided to run its command; they share the files and    *)
(* the lockfile, and each has its own `data` in update_lockfile             *)

Instances == {1, 2}

InitRace ==
    /\ manifest \in {mBase, mLate}
    /\ files = files0
    /\ dirs = MadeDirs(manifest, files0, {})
    /\ lock \in {NoLock, [exists |-> TRUE, data |-> <<>>]}
    /\ cwd = "home"
    /\ stack = <<>>
    /\ exc = NoExc
    /\ args = NoArgs
    /\ phase = "idle"
    /\ result = NoExc
    /\ data = <<>>
    /\ log = <<>>
    /\ snap = [n \in CommandNames |-> NoSnap]
    /\ entry0 = NoEntry
    /\ runs = 0
    /\ edits = 0
    /\ ov = ovIdle
    /\ ck = ckIdle
    /\ hist = histNone
    /\ \E n1, n2 \in CommandKeys(manifest) :
        /\ n1 # n2
        /\ race = [p \in Instances |->
                    [name |-> IF p = 1 THEN n1 ELSE n2, pc |-> "run",
                     idx |-> 1, data |-> <<>>]]

RaceCmd(p) == Commands(manifest)[race[p].name]

\* run_commands of instance p: one line of the script.
RaceLine(p) ==
    /\ race[p].pc = "run"
    /\ race[p].idx <= Len(RaceCmd(p).script)
    /\ \E code \in ExitCodes :
        LET line == RaceCmd(p).script[race[p].idx]
        IN /\ code = 0 => CanSucceed(line, files, dirs)
           /\ IF run_command(line, code, FALSE) = NoExc
                 THEN /\ files' = Effect(line, files)
                      /\ race' = [race EXCEPT ![p].idx = @ + 1]
                 ELSE /\ files' = files
                      /\ race' = [race EXCEPT ![p].pc = "failed"]
    /\ UNCHANGED <<manifest, dirs, lock, cwd, stack, exc, args, phase, result,
                   data, log, snap, entry0, runs, edits, ov, ck, hist>>

\* The script of instance p is through: update_lockfile is called.
RaceEndScript(p) ==
    /\ race[p].pc = "run"
    /\ race[p].idx > Len(RaceCmd(p).script)
    /\ race' = [race EXCEPT ![p].pc = after_script(FALSE)]
    /\ UNCHANGED <<manifest, files, dirs, lock, cwd, stack, exc, args, phase,
                   result, data, log, snap, entry0, runs, edits, ov, ck, hist>>

\* update_lockfile of instance p, first half: create the lockfile if there
\* is none, else read it.
RaceRead(p) ==
    /\ race[p].pc = "update"
    /\ IF ~lock.exists
          THEN /\ lock' = [exists |-> TRUE, data |-> <<>>]
               /\ race' = [race EXCEPT ![p].pc = "write", ![p].data = <<>>]
          ELSE /\ lock' = lock
               /\ race' = [race EXCEPT ![p].pc = "write",
                                       ![p].data = lock.data]
    /\ UNCHANGED <<manifest, files, dirs, cwd, stack, exc, args, phase, result,
                   data, log, snap, entry0, runs, edits, ov, ck, hist>>

\* update_lockfile of instance p, second half: set the entry in the map it
\* has read and write the map.
RaceWrite(p) ==
    /\ race[p].pc = "write"
    /\ lock' = [exists |-> TRUE,
                data |-> SetEntry(race[p].data, race[p].name,
                                  get_lock_entry(files, dirs, RaceCmd(p)))]
    /\ race' = [race EXCEPT ![p].pc = "done", ![p].data = <<>>]
    /\ UNCHANGED <<manifest, files, dirs, cwd, stack, exc, args, phase, result,
                   data, log, snap, entry0, runs, edits, ov, ck, hist>>

NextRace ==
    \E p \in Instances :
        \/ RaceLine(p)
        \/ RaceEndScript(p)
        \/ RaceRead(p)
        \/ RaceWrite(p)

SpecRace == InitRace /\ [][NextRace]_vars

\* Instance p writes the lockfile in this step.
Writes(p) == race[p].pc = "write" /\ race'[p].pc = "done"

\* C22: the update of the lockfile is a read and a later write of the whole
\* map, with nothing that holds the file in between. What an instance
\* writes is the map it read plus its own entry, whatever the lockfile holds
\* at the time of the write; so with two instances running different
\* commands, both can finish successfully and leave a lockfile without the
\* entry of one of them (the witness).
C22_LastWriteWins ==
    [][\A p \in Instances : Writes(p) =>
        /\ DOMAIN lock'.data = DOMAIN race[p].data \cup {race[p].name}
        /\ \A n \in DOMAIN race[p].data \ {race[p].name} :
                lock'.data[n] = race[p].data[n]]_vars

\* Both instances have run their scripts and updated the lockfile, and the
\* lockfile has the entry of one of them only.
C22_Witness ==
    /\ \A p \in Instances : race[p].pc = "done"
    /\ \E p, q \in Instances :
        /\ race[p].name \in DOMAIN lock.data
        /\ race[q].name \notin DOMAIN lock.data

-----------------------------------------------------------------------------
(* Calls that repeat a call: the project after a first build, a workflow    *)
(* run again after it failed, a command run again after its manifest entry  *)
(* was edited. No file is touched between the calls.                        *)

\* A whose script rewrites its own dependency and its own output.
cmdA_self == [cmdA EXCEPT !.script = <<Line("write", "src", <<>>),
                                       Line("write", "out", <<>>)>>]
mSelf == Config(<<cmdA_self>>, <<>>, <<>>)

\* A with two dependencies and two outputs, and the edits of its manifest
\* entry: help, script, order of deps, order of outputs, one output less,
\* one output moved to outputs_no_cache.
cmdP == [cmdA EXCEPT !.deps = <<"src", "out">>, !.outputs = <<"out", "doc">>]
mPlain == Config(<<cmdP>>, <<>>, <<>>)
PlainVariants ==
    {Config(<<c>>, <<>>, <<>>) :
        c \in {cmdP,
               [cmdP EXCEPT !.help = "compile"],
               [cmdP EXCEPT !.script = <<Line("write", "out", <<1>>),
                                         Line("write", "out", <<1>>)>>],
               [cmdP EXCEPT !.deps = <<"out", "src">>],
               [cmdP EXCEPT !.outputs = <<"doc", "out">>],
               [cmdP EXCEPT !.outputs = <<"out">>],
               [cmdP EXCEPT !.outputs = <<"out">>,
                            !.outputs_no_cache = <<"doc">>]}}

\* The project of mBase after a successful run of its workflow W.
filesW == [files0 EXCEPT !["out"] = <<1>>, !["d/x"] = <<1>>]
lockW ==
    [exists |-> TRUE,
     data |-> ("A" :> get_lock_entry(filesW, {"d"}, cmdA))
              @@ ("B" :> get_lock_entry(filesW, {"d"}, cmdB))]
snapW == [n \in CommandNames |-> Snapshot(Commands(mBase)[n], filesW, {"d"})]

InitAgain ==
    /\ ov = ovIdle /\ ck = ckIdle
    /\ \/ \E m \in {mBase, mNoSkip, mSelf, mPlain} : RunnerIdle(m)
       \/ ProjectIdle(mBase, filesW, {"d"}, lockW, snapW)

\* What is remembered of the call that has ended: the subcommand, and the
\* step whose script line or dependency check failed, if one did.
LastCall ==
    [name |-> args.name,
     failed |-> IF Failures = {} THEN ""
                ELSE log[CHOOSE i \in Failures : TRUE].name,
     valid |-> TRUE]

NextAgain ==
    \/ \E name \in RunNames, force, dry, capture \in BOOLEAN :
            Start(name, force, dry, capture)
    \/ Load
    \/ Resolve
    \/ WorkflowStep
    \/ CheckDeps
    \/ EnterWorkingDir
    \/ Skip
    \/ RunLine
    \/ EndScript
    \/ UpdateRead
    \/ UpdateWrite
    \/ ExitWorkingDir
    \/ Unwind
    \/ Finish
    \/ ResetTo(LastCall)
    \/ \E m \in PlainVariants : manifest \in PlainVariants /\ EditManifest(m)

SpecAgain == InitAgain /\ [][NextAgain]_vars

\* The running call repeats the previous call, a workflow that failed at the
\* step hist.failed; the project was not edited and force is not set.
Rerun ==
    /\ phase = "running" /\ hist.valid /\ edits = 0
    /\ args.name = hist.name /\ ~args.force
    /\ manifest.file = "ok" /\ args.name \in WorkflowKeys(manifest)
    /\ hist.failed # ""
\* The steps of the workflow before the step that failed.
StepsBefore ==
    LET steps == manifest.workflows[args.name]
    IN {steps[i] : i \in {j \in 1..Len(steps) :
                            \A h \in 1..j : steps[h] # hist.failed}}
\* The lockfile holds for the command the entry of its last successful run.
Kept(n) ==
    /\ lock.exists /\ n \in DOMAIN lock.data /\ snap[n].valid
    /\ lock.data[n] = get_lock_entry(snap[n].files, snap[n].dirs, snap[n].cmd)

\* C23 as stated: when a workflow is run again after it failed at step k,
\* with nothing changed and force not set, the steps before k that have
\* recorded outputs and no no_skip are not executed, and step k is not
\* skipped.
C23_Original ==
    Rerun /\ Running =>
        /\ (/\ Top.name \in StepsBefore
            /\ HasOuts(CurCmd) /\ ~CurCmd.no_skip /\ Unchanged(CurCmd)) =>
                Top.pc \notin {"run", "update", "write"}
        /\ Top.name = hist.failed => Top.pc # "skip"

\* C23: the lockfile is written once per completed command. The entry a
\* step has written stays in the lockfile when a later step of the workflow
\* fails; when the workflow is run again with nothing changed and force not
\* set, a step before the failed one that has recorded outputs, no no_skip
\* and its files as its run left them is not executed, and the failed step k
\* is executed, unless the lockfile still holds for k the up-to-date entry of
\* an earlier successful run (the failed run was forced): then k is skipped.
C23_EntriesSurviveFailure ==
    /\ phase \in {"running", "done"} =>
            \A i \in 1..Len(log) : log[i].ev = "lock" => Kept(log[i].name)
    /\ (Rerun /\ Running) =>
        /\ (/\ Top.name \in StepsBefore
            /\ HasOuts(CurCmd) /\ ~CurCmd.no_skip /\ Unchanged(CurCmd)) =>
                Top.pc \notin {"run", "update", "write"}
        /\ (Top.name = hist.failed /\ Top.pc = "skip") =>
                Unchanged(CurCmd) /\ Kept(Top.name)

\* The workflow is run again after its second step failed: the first step
\* has been skipped on the entry the failed run wrote, and the second step,
\* which has no entry, is being executed.
C23_Witness ==
    /\ Rerun /\ At("run") /\ Top.name = hist.failed
    /\ Top.name \notin DOMAIN lock.data
    /\ runs = 2 /\ StepsBefore # {}
    /\ \A n \in StepsBefore :
            /\ Kept(n)
            /\ \E i \in 1..Len(log) : log[i].ev = "skip" /\ log[i].name = n

\* Two versions of a command that give the same lock entry over the same
\* files: the same script, deps, and outputs followed by outputs_no_cache.
EntrySame(a, b) ==
    /\ a.name = b.name /\ a.script = b.script /\ a.deps = b.deps
    /\ a.outputs \o a.outputs_no_cache = b.outputs \o b.outputs_no_cache
\* A version of the running command had a successful run, the files and
\* directories that version or the manifest's version lists are as that run
\* left them, and neither force nor no_skip is set.
FilesAsLeft ==
    LET was == snap[Top.name]
    IN /\ was.valid /\ ~args.force /\ ~CurCmd.no_skip
       /\ Covered(CurCmd) \subseteq Covered(was.cmd)
       /\ \A f \in Covered(was.cmd) : files[f] = was.files[f]
       /\ dirs \cap Listed(was.cmd) = was.dirs
RunsCommand ==
    Running /\ manifest.file = "ok" /\ Top.name \in CommandKeys(manifest)

\* C25 as stated: with the files unchanged, a command whose script, deps,
\* outputs or outputs_no_cache list differs from what its last successful
\* run had is not skipped, and a command that differs in its help text only
\* is not executed.
C25_Original ==
    [][(At("enter") /\ RunsCommand /\ FilesAsLeft) =>
        LET was == snap[Top.name].cmd
        IN /\ (\/ was.script # CurCmd.script \/ was.deps # CurCmd.deps
               \/ was.outputs # CurCmd.outputs
               \/ was.outputs_no_cache # CurCmd.outputs_no_cache) =>
                    TopOf(stack').pc = "run"
           /\ (SameCommand(was, CurCmd) /\ HasOuts(CurCmd)) =>
                    TopOf(stack').pc = "skip"]_vars

\* C25: the rerun decision compares the whole lock entry, which holds the
\* script and, path by path and in order, the deps and the outputs followed
\* by the outputs_no_cache. With the files unchanged, a command is not
\* skipped when its script, its deps list or that joined outputs list
\* differs, in content or in order, from what its last successful run had;
\* it is not executed when they are the same, whatever its help text is and
\* however the outputs are divided between outputs and outputs_no_cache.
C25_EntryDecides ==
    [][(At("enter") /\ RunsCommand /\ FilesAsLeft) =>
        LET was == snap[Top.name].cmd
        IN /\ ~EntrySame(was, CurCmd) => TopOf(stack').pc = "run"
           /\ (EntrySame(was, CurCmd) /\ HasOuts(CurCmd)) =>
                    TopOf(stack').pc = "skip"]_vars

\* A command is executed, with its files unchanged, after the order of its
\* deps was changed in the manifest.
C25_Witness ==
    /\ RunsCommand /\ FilesAsLeft /\ Top.pc = "run" /\ Top.idx = 1
    /\ snap[Top.name].cmd.deps # CurCmd.deps
    /\ Listed(snap[Top.name].cmd) = Listed(CurCmd)
    /\ snap[Top.name].cmd.outputs = CurCmd.outputs
    /\ snap[Top.name].cmd.script = CurCmd.script

\* The digest of a listed path as the project directory has it now.
DigestNow(path) ==
    IF Exists(files, dirs, path) THEN get_checksum(files, dirs, path)
    ELSE NoDigest
\* The script of the command writes a file the command lists as a dependency
\* or as an output.
WritesOwn(command) ==
    \E i \in 1..Len(command.script) :
        /\ command.script[i].prog = "write"
        /\ command.script[i].path \in Covered(command)
\* The recorded digest of a path is not the digest the path had in the
\* project as it was before the first call.
RecordedAfterChange(info) ==
    info.md5 # (IF Exists(files0, {}, info.path)
                    THEN get_checksum(files0, {}, info.path) ELSE NoDigest)

\* C26: the entry update_lockfile writes holds, for every dep and output, the
\* digest of the path as it is at the write, after the script has run, and
\* not as it was when the call started; so a command whose script writes its
\* own dependencies or outputs is skipped by the next call when nothing has
\* changed since its run (it has recorded outputs, and neither no_skip nor
\* force is set).
C26_DigestsAfterScript ==
    /\ [][At("write") =>
            LET e == lock'.data[Top.name]
            IN /\ \A i \in 1..Len(e.deps) : e.deps[i].md5 = DigestNow(e.deps[i].path)
               /\ \A i \in 1..Len(e.outs) : e.outs[i].md5 = DigestNow(e.outs[i].path)
               /\ files' = files /\ dirs' = dirs]_vars
    /\ [][(/\ At("enter") /\ ~args.force /\ ~CurCmd.no_skip
            /\ WritesOwn(CurCmd) /\ HasOuts(CurCmd) /\ Unchanged(CurCmd))
                => TopOf(stack').pc = "skip"]_vars

\* The second call skips a command whose script has rewritten its own
\* dependency in the first call: the entry holds the digest of the
\* dependency as the script left it.
C26_Witness ==
    /\ At("skip") /\ runs = 2 /\ WritesOwn(CurCmd)
    /\ \E i \in 1..Len(CurCmd.deps) :
        /\ lock.data[Top.name].deps[i].path = CurCmd.deps[i]
        /\ RecordedAfterChange(lock.data[Top.name].deps[i])
        /\ lock.data[Top.name].deps[i].md5 = DigestNow(CurCmd.deps[i])
        /\ \E j \in 1..Len(CurCmd.script) :
                CurCmd.script[j].path = CurCmd.deps[i]

====
